---------------------------- MODULE Spec2Model ----------------------------
(***************************************************************************)
(* A model of gen_must (src/main.go, first file of the concatenation):     *)
(* the tag scanner walkCode, the signature extractors generateType,        *)
(* generateReceiver, generateParams, generateReturns, generateTypeParams,  *)
(* the name derivation mustName and the synthesizer generateMust.          *)
(*                                                                         *)
(* Go strings are byte strings.  A Go string is modelled as a sequence of  *)
(* bytes; a byte below 0x80 is the one-character string of its ASCII       *)
(* character and a byte from 0x80 up is written in Go's escape notation    *)
(* (the byte 0xC3 is the element "\\xc3").  S(lit) is the Go string of an   *)
(* ASCII literal.                                                          *)
(***************************************************************************)
EXTENDS Integers, Sequences, FiniteSets, TLC

VARIABLES
    pkg,        \* the loaded package: the source shapes of its files (pkg.Syntax)
    fileIdx,    \* walkCode: index of the file being inspected (range loop, line 80)
    declIdx,    \* walkCode: number of FuncDecl nodes of that file already visited
    err,        \* walkCode: the per-file variable err (line 81)
    buffer,     \* generator.Buffer: the output text
    pc,         \* position of main: "head", "walk", "done", "exit", "panic"
    fault,      \* the error shown by showError, or the panic message
    calls,      \* the invocations of genFn made so far, with their results
    call,       \* name of the function last applied on its own
    arg,        \* its argument
    ret         \* its result

vars == <<pkg, fileIdx, declIdx, err, buffer, pc, fault, calls, call, arg, ret>>

walkVars == <<pkg, fileIdx, declIdx, err, buffer, pc, fault, calls>>
fnVars == <<call, arg, ret>>

----------------------------------------------------------------------------
(* Bounds *)

MaxItems == 3       \* declarations and file breaks in a drawn package
MaxFields == 2      \* fields in a drawn parameter or result list
MaxRunes == 3       \* characters in a drawn function name

----------------------------------------------------------------------------
(* Go strings *)

S(lit) == [i \in 1..Len(lit) |-> SubSeq(lit, i, i)]

RECURSIVE Join(_, _)
Join(elems, sep) ==
    IF Len(elems) = 0 THEN <<>>
    ELSE IF Len(elems) = 1 THEN elems[1]
    ELSE elems[1] \o sep \o Join(Tail(elems), sep)

HasPrefix(s, prefix) ==
    /\ Len(s) >= Len(prefix)
    /\ SubSeq(s, 1, Len(prefix)) = prefix

TrimPrefix(s, prefix) ==
    IF HasPrefix(s, prefix) THEN SubSeq(s, Len(prefix) + 1, Len(s)) ELSE s

IsSpace(b) == b \in {" ", "\t", "\n", "\r"}

RECURSIVE TrimLeft(_)
TrimLeft(s) ==
    IF Len(s) > 0 /\ IsSpace(s[1]) THEN TrimLeft(Tail(s)) ELSE s

RECURSIVE TrimRight(_)
TrimRight(s) ==
    IF Len(s) > 0 /\ IsSpace(s[Len(s)]) THEN TrimRight(SubSeq(s, 1, Len(s) - 1)) ELSE s

TrimSpace(s) == TrimRight(TrimLeft(s))

Lower == "abcdefghijklmnopqrstuvwxyz"
Upper == "ABCDEFGHIJKLMNOPQRSTUVWXYZ"

IsLowerByte(b) == \E i \in 1..Len(Lower) : SubSeq(Lower, i, i) = b
IsUpperByte(b) == \E i \in 1..Len(Upper) : SubSeq(Upper, i, i) = b

UpperByte(b) ==
    IF IsLowerByte(b)
    THEN LET i == CHOOSE j \in 1..Len(Lower) : SubSeq(Lower, j, j) = b
         IN  SubSeq(Upper, i, i)
    ELSE b

IsASCII(b) == Len(b) = 1

\* The UTF-8 encoding of U+FFFD, which strings.Map writes for an invalid byte.
RuneError == <<"\\xef", "\\xbf", "\\xbd">>

\* strings.ToUpper: ASCII letters are mapped bytewise; in a string with a byte
\* >= 0x80 every rune is decoded and mapped by unicode.ToUpper, and a byte
\* that starts no valid encoding becomes U+FFFD.  The two-byte runes of the
\* model are U+00E9 (c3 a9) and its upper case U+00C9 (c3 89).
RECURSIVE ToUpper(_)
ToUpper(s) ==
    IF Len(s) = 0 THEN <<>>
    ELSE IF IsASCII(s[1]) THEN <<UpperByte(s[1])>> \o ToUpper(Tail(s))
    ELSE IF s[1] = "\\xc3" /\ Len(s) >= 2 /\ s[2] \in {"\\xa9", "\\x89"}
         THEN <<"\\xc3", "\\x89">> \o ToUpper(SubSeq(s, 3, Len(s)))
    ELSE IF s[1] = "\\xef" /\ Len(s) >= 3 /\ s[2] = "\\xbf" /\ s[3] = "\\xbd"
         THEN RuneError \o ToUpper(SubSeq(s, 4, Len(s)))
    ELSE RuneError \o ToUpper(Tail(s))

Itoa(n) == S(ToString(n))

----------------------------------------------------------------------------
(* Errors *)

NoErr == "nil"
errUnknownFieldType == "unknown field type"
errNoReturnValues == "no return values"
errNoErrorReturn == "no error returned"

NoPanic == "none"
PanicIndex == "index out of range [0] with length 0"
PanicNil == "invalid memory address or nil pointer dereference"

----------------------------------------------------------------------------
(* go/ast nodes *)

Nil == [kind |-> "nil"]

Ident(name) == [kind |-> "Ident", Name |-> S(name)]
StarExpr(x) == [kind |-> "StarExpr", X |-> x]
Ellipsis(elt) == [kind |-> "Ellipsis", Elt |-> elt]
BinaryExpr(x, op, y) == [kind |-> "BinaryExpr", X |-> x, Op |-> op, Y |-> y]
UnaryExpr(op, x) == [kind |-> "UnaryExpr", Op |-> op, X |-> x]
IndexExpr(x, index) == [kind |-> "IndexExpr", X |-> x, Index |-> index]
IndexListExpr(x, indices) == [kind |-> "IndexListExpr", X |-> x, Indices |-> indices]
ArrayType(elt) == [kind |-> "ArrayType", Elt |-> elt]
SelectorExpr(x, sel) == [kind |-> "SelectorExpr", X |-> x, Sel |-> S(sel)]

Field(names, type) == [Names |-> [i \in 1..Len(names) |-> S(names[i])], Type |-> type]
FieldList(fields) == [kind |-> "FieldList", List |-> fields]

\* token.Token.IsOperator and token.Token.String for the operator tokens
OperatorTokens == {"|", "~", "+", "-", "*", "&"}
IsOperator(op) == op \in OperatorTokens

\* fmt's %s of an ast.Expr: *ast.Ident has a String method that gives its
\* name; any other node has none and is printed as a dump of its fields.
FmtExpr(x) ==
    IF x.kind = "Ident" THEN x.Name ELSE S("&{%!s(") \o S(x.kind) \o S(")}")

----------------------------------------------------------------------------
(* Type-expression reconstruction *)

Ok(s) == [s |-> s, err |-> NoErr]
Fail(e) == [s |-> <<>>, err |-> e]

RECURSIVE generateType(_)
RECURSIVE generateTypeList(_)

\* The loop over t.Indices: the reconstructed indices, or the first error.
generateTypeList(indices) ==
    IF Len(indices) = 0 THEN [ss |-> <<>>, err |-> NoErr]
    ELSE LET e == generateType(indices[1])
         IN  IF e.err # NoErr THEN [ss |-> <<>>, err |-> e.err]
             ELSE LET rest == generateTypeList(Tail(indices))
                  IN  IF rest.err # NoErr THEN rest
                      ELSE [ss |-> <<e.s>> \o rest.ss, err |-> NoErr]

generateType(typ) ==
    CASE typ.kind = "StarExpr" ->
            LET tx == generateType(typ.X)
            IN  IF tx.err # NoErr THEN Fail(tx.err) ELSE Ok(S("*") \o tx.s)
      [] typ.kind = "Ident" -> Ok(typ.Name)
      [] typ.kind = "Ellipsis" -> Ok(S("...") \o FmtExpr(typ.Elt))
      [] typ.kind = "BinaryExpr" ->
            IF ~IsOperator(typ.Op) THEN Fail(errUnknownFieldType)
            ELSE LET tx == generateType(typ.X)
                 IN  IF tx.err # NoErr THEN Fail(tx.err)
                     ELSE LET ty == generateType(typ.Y)
                          IN  IF ty.err # NoErr THEN Fail(ty.err)
                              ELSE Ok(tx.s \o S(" ") \o S(typ.Op) \o S(" ") \o ty.s)
      [] typ.kind = "UnaryExpr" -> Ok(S(typ.Op) \o FmtExpr(typ.X))
      [] typ.kind = "IndexExpr" ->
            LET ident == generateType(typ.X)
            IN  IF ident.err # NoErr THEN Fail(ident.err)
                ELSE LET expr == generateType(typ.Index)
                     IN  IF expr.err # NoErr THEN Fail(expr.err)
                         ELSE Ok(ident.s \o S("[") \o expr.s \o S("]"))
      [] typ.kind = "IndexListExpr" ->
            LET ident == generateType(typ.X)
            IN  IF ident.err # NoErr THEN Fail(ident.err)
                ELSE LET exprs == generateTypeList(typ.Indices)
                     IN  IF exprs.err # NoErr THEN Fail(exprs.err)
                         ELSE Ok(ident.s \o S("[") \o Join(exprs.ss, S(",")) \o S("]"))
      [] OTHER -> Fail(errUnknownFieldType)

----------------------------------------------------------------------------
(* Signature extraction.  Each extractor gives its two texts, its error
   and, where the code indexes a list without a check, the run-time panic. *)

Pieces(decl, use) == [decl |-> decl, use |-> use, err |-> NoErr, panic |-> NoPanic]
Failed(e) == [decl |-> <<>>, use |-> <<>>, err |-> e, panic |-> NoPanic]
Panicked(msg) == [decl |-> <<>>, use |-> <<>>, err |-> NoErr, panic |-> msg]

\* The placeholder name given to a receiver named "_" (line 202).
Placeholder == S("t")

generateReceiver(recv) ==
    IF recv = Nil THEN Pieces(<<>>, <<>>)
    ELSE IF Len(recv.List[1].Names) = 0 THEN Panicked(PanicIndex)
    ELSE LET name0 == recv.List[1].Names[1]
             decl == generateType(recv.List[1].Type)
             name == IF name0 = S("_") THEN Placeholder ELSE name0
         IN  IF decl.err # NoErr THEN Failed(decl.err)
             ELSE Pieces(S("(") \o name \o S(" ") \o decl.s \o S(")"), name \o S("."))

\* The loop of generateParams and generateTypeParams over the fields: the
\* first name of each field, and that name paired with the field's type.
RECURSIVE fieldLoop(_)
fieldLoop(list) ==
    IF Len(list) = 0
    THEN [names |-> <<>>, types |-> <<>>, err |-> NoErr, panic |-> NoPanic]
    ELSE IF Len(list[1].Names) = 0
    THEN [names |-> <<>>, types |-> <<>>, err |-> NoErr, panic |-> PanicIndex]
    ELSE LET t == generateType(list[1].Type)
         IN  IF t.err # NoErr
             THEN [names |-> <<>>, types |-> <<>>, err |-> t.err, panic |-> NoPanic]
             ELSE LET rest == fieldLoop(Tail(list))
                  IN  IF rest.err # NoErr \/ rest.panic # NoPanic THEN rest
                      ELSE [names |-> <<list[1].Names[1]>> \o rest.names,
                            types |-> <<list[1].Names[1] \o S(" ") \o t.s>> \o rest.types,
                            err |-> NoErr, panic |-> NoPanic]

generateParams(params) ==
    IF params = Nil \/ Len(params.List) = 0 THEN Pieces(<<>>, <<>>)
    ELSE LET l == fieldLoop(params.List)
         IN  IF l.panic # NoPanic THEN Panicked(l.panic)
             ELSE IF l.err # NoErr THEN Failed(l.err)
             ELSE Pieces(Join(l.types, S(",")), Join(l.names, S(",")))

generateTypeParams(typeParams) ==
    IF typeParams = Nil \/ Len(typeParams.List) = 0 THEN Pieces(<<>>, <<>>)
    ELSE LET l == fieldLoop(typeParams.List)
         IN  IF l.panic # NoPanic THEN Panicked(l.panic)
             ELSE IF l.err # NoErr THEN Failed(l.err)
             ELSE Pieces(S("[") \o Join(l.types, S(",")) \o S("]"),
                         S("[") \o Join(l.names, S(",")) \o S("]"))

\* The loop of generateReturns: "var<i>" and the type of each field, i from 0.
RECURSIVE returnsLoop(_, _)
returnsLoop(list, i) ==
    IF Len(list) = 0 THEN [names |-> <<>>, types |-> <<>>, err |-> NoErr]
    ELSE LET t == generateType(list[1].Type)
         IN  IF t.err # NoErr THEN [names |-> <<>>, types |-> <<>>, err |-> t.err]
             ELSE LET rest == returnsLoop(Tail(list), i + 1)
                  IN  IF rest.err # NoErr THEN rest
                      ELSE [names |-> <<S("var") \o Itoa(i)>> \o rest.names,
                            types |-> <<t.s>> \o rest.types,
                            err |-> NoErr]

\* A slip in line 238: the first type is compared with "error", not the last.
generateReturns_FirstType(rets) ==
    IF rets = Nil \/ Len(rets.List) = 0 THEN Failed(errNoReturnValues)
    ELSE LET l == returnsLoop(rets.List, 0)
             n == Len(rets.List)
         IN  IF l.err # NoErr THEN Failed(l.err)
             ELSE IF l.types[1] # S("error") THEN Failed(errNoErrorReturn)
             ELSE Pieces(l.types, [l.names EXCEPT ![n] = S("err")])

\* decl and use are lists here (types and variable names), not joined texts.
generateReturns(rets) ==
    IF rets = Nil \/ Len(rets.List) = 0 THEN Failed(errNoReturnValues)
    ELSE LET l == returnsLoop(rets.List, 0)
             n == Len(rets.List)
         IN  IF l.err # NoErr THEN Failed(l.err)
             ELSE IF l.types[n] # S("error") THEN Failed(errNoErrorReturn)
             ELSE Pieces(l.types, [l.names EXCEPT ![n] = S("err")])

----------------------------------------------------------------------------
(* Name derivation *)

mustName(name) ==
    LET f == SubSeq(name, 1, 1)
    IN  IF ToUpper(f) = f THEN S("Must") \o name
        ELSE S("must") \o ToUpper(f) \o SubSeq(name, 2, Len(name))

----------------------------------------------------------------------------
(* Synthesis *)

FuncDecl(name, recv, typeParams, params, results) ==
    [Name |-> S(name), Recv |-> recv,
     Type |-> [TypeParams |-> typeParams, Params |-> params, Results |-> results]]

HeadText ==
    S("// Code generated - DO NOT EDIT.\n// This file is auto generated by gen_must and any manual changes will be lost.\n\n")

generateHead(buf, pkgName) ==
    buf \o HeadText \o S("package ") \o pkgName \o S("\n\n")

\* What a call of generateMust leaves: the buffer, the value returned (always
\* nil), the error handed to showError (which ends the process), the panic.
Returned(buf) == [buf |-> buf, ret |-> NoErr, exit |-> NoErr, panic |-> NoPanic]
Exited(buf, e) == [buf |-> buf, ret |-> NoErr, exit |-> e, panic |-> NoPanic]
Crashed(buf, msg) == [buf |-> buf, ret |-> NoErr, exit |-> NoErr, panic |-> msg]

wrapperText(newName, fnDecl, tp, recv, params, rets) ==
    LET n == Len(rets.decl)
        rv == SubSeq(rets.use, 1, n - 1)
    IN  S("// ") \o newName \o S(" has the behavior of ") \o fnDecl.Name
            \o S(", except it panics any error\n")
        \o S("func ") \o recv.decl \o S(" ") \o newName \o tp.decl
            \o S("(") \o params.decl \o S(") (")
            \o Join(SubSeq(rets.decl, 1, n - 1), S(",")) \o S(") {\n")
        \o Join(rets.use, S(",")) \o S(" := ") \o recv.use \o fnDecl.Name \o tp.use
            \o S("(") \o params.use \o S(")\nif err!=nil{panic(err)}\n")
        \o (IF Len(rv) > 0 THEN S("return ") \o Join(rv, S(",")) ELSE <<>>)
        \o S("}\n\n")

\* A slip in lines 301-323: the wrapper is written before the text the
\* buffer holds, not after it.
generateMust_Prepend(buf, newName, fnDecl) ==
    LET tp == generateTypeParams(fnDecl.Type.TypeParams)
        recv == generateReceiver(fnDecl.Recv)
        params == generateParams(fnDecl.Type.Params)
        rets == generateReturns(fnDecl.Type.Results)
    IN  IF tp.panic # NoPanic THEN Crashed(buf, tp.panic)
        ELSE IF tp.err # NoErr THEN Exited(buf, tp.err)
        ELSE IF recv.panic # NoPanic THEN Crashed(buf, recv.panic)
        ELSE IF recv.err # NoErr THEN Exited(buf, recv.err)
        ELSE IF params.panic # NoPanic THEN Crashed(buf, params.panic)
        ELSE IF params.err # NoErr THEN Exited(buf, params.err)
        ELSE IF rets.err # NoErr THEN Exited(buf, rets.err)
        ELSE Returned(wrapperText(newName, fnDecl, tp, recv, params, rets) \o buf)

generateMust(buf, newName, fnDecl) ==
    LET tp == generateTypeParams(fnDecl.Type.TypeParams)
        recv == generateReceiver(fnDecl.Recv)
        params == generateParams(fnDecl.Type.Params)
        rets == generateReturns(fnDecl.Type.Results)
    IN  IF tp.panic # NoPanic THEN Crashed(buf, tp.panic)
        ELSE IF tp.err # NoErr THEN Exited(buf, tp.err)
        ELSE IF recv.panic # NoPanic THEN Crashed(buf, recv.panic)
        ELSE IF recv.err # NoErr THEN Exited(buf, recv.err)
        ELSE IF params.panic # NoPanic THEN Crashed(buf, params.panic)
        ELSE IF params.err # NoErr THEN Exited(buf, params.err)
        ELSE IF rets.err # NoErr THEN Exited(buf, rets.err)
        ELSE Returned(buf \o wrapperText(newName, fnDecl, tp, recv, params, rets))

----------------------------------------------------------------------------
(* The declarations the extractors are applied to *)

TInt == Ident("int")
TError == Ident("error")
TPtr == StarExpr(Ident("TypeA"))
TSlice == ArrayType(Ident("int"))
TConstraint == BinaryExpr(UnaryExpr("~", Ident("int")), "|", Ident("string"))

TypeExprs ==
    {TInt, TError, TPtr, TSlice, TConstraint,
     StarExpr(TSlice), Ellipsis(TInt), Ellipsis(TPtr), UnaryExpr("~", TPtr),
     IndexExpr(Ident("TypeB"), TInt), IndexExpr(Ident("TypeB"), TSlice),
     IndexListExpr(Ident("TypeC"), <<TInt, TPtr>>),
     IndexListExpr(Ident("TypeC"), <<TInt, TSlice>>),
     SelectorExpr(Ident("io"), "Reader"),
     BinaryExpr(TInt, "|", TSlice), BinaryExpr(TInt, "(", TInt)}

FieldLists(fields) ==
    {Nil} \cup {FieldList(l) : l \in UNION {[1..n -> fields] : n \in 0..MaxFields}}

Receivers ==
    {Nil,
     FieldList(<<Field(<<"r">>, Ident("TypeA"))>>),
     FieldList(<<Field(<<"_">>, TPtr)>>),
     FieldList(<<Field(<<>>, Ident("TypeA"))>>)}

TypeParamLists ==
    {Nil,
     FieldList(<<Field(<<"T">>, Ident("any"))>>),
     FieldList(<<Field(<<"T">>, TConstraint), Field(<<"U">>, Ident("any"))>>)}

ParamFields ==
    {Field(<<"a">>, TInt), Field(<<"b", "c">>, TInt), Field(<<>>, TInt),
     Field(<<"v">>, Ellipsis(TInt)), Field(<<"xs">>, TSlice)}

ResultFields ==
    {Field(<<>>, TInt), Field(<<>>, TError), Field(<<"err">>, TError),
     Field(<<"q", "r">>, TInt), Field(<<>>, TSlice)}

\* A method has no type parameters of its own.
Heads ==
    {<<Nil, tp>> : tp \in TypeParamLists} \cup {<<recv, Nil>> : recv \in Receivers}

\* The declarations of one name over every head, parameter and result list.
FuncDecls(name) ==
    {FuncDecl(name, h[1], h[2], params, results) :
        h \in Heads,
        params \in FieldLists(ParamFields), results \in FieldLists(ResultFields)}

\* The characters of a drawn function name, each as its UTF-8 bytes.
Runes ==
    {<<"a">>, <<"d">>, <<"Z">>, <<"_">>, <<"7">>, <<"\\xc3", "\\xa9">>, <<"\\xc3", "\\x89">>}

RECURSIVE Flatten(_)
Flatten(ss) == IF Len(ss) = 0 THEN <<>> ELSE ss[1] \o Flatten(Tail(ss))

\* The identifiers of 1..MaxRunes characters: an identifier starts with no digit.
FuncNames ==
    {Flatten(rs) : rs \in {r \in UNION {[1..n -> Runes] : n \in 1..MaxRunes} : r[1] # <<"7">>}}

----------------------------------------------------------------------------
(* Each function applied on its own to a drawn argument *)

CallGenerateType ==
    /\ call = "none"
    /\ \E typ \in TypeExprs :
        /\ call' = "generateType"
        /\ arg' = typ
        /\ ret' = generateType(typ)
    /\ UNCHANGED walkVars

CallGenerateReceiver ==
    /\ call = "none"
    /\ \E recv \in Receivers :
        /\ call' = "generateReceiver"
        /\ arg' = recv
        /\ ret' = generateReceiver(recv)
    /\ UNCHANGED walkVars

CallGenerateParams ==
    /\ call = "none"
    /\ \E params \in FieldLists(ParamFields) :
        /\ call' = "generateParams"
        /\ arg' = params
        /\ ret' = generateParams(params)
    /\ UNCHANGED walkVars

CallGenerateTypeParams ==
    /\ call = "none"
    /\ \E tp \in TypeParamLists :
        /\ call' = "generateTypeParams"
        /\ arg' = tp
        /\ ret' = generateTypeParams(tp)
    /\ UNCHANGED walkVars

CallGenerateReturns ==
    /\ call = "none"
    /\ \E rets \in FieldLists(ResultFields) :
        /\ call' = "generateReturns"
        /\ arg' = rets
        /\ ret' = generateReturns(rets)
    /\ UNCHANGED walkVars

CallMustName ==
    /\ call = "none"
    /\ \E name \in FuncNames :
        /\ call' = "mustName"
        /\ arg' = [name |-> name]
        /\ ret' = [s |-> mustName(name)]
    /\ UNCHANGED walkVars

\* generateMust on an empty buffer, under the name walkCode derives by default.
CallGenerateMust ==
    /\ call = "none"
    /\ \E fnDecl \in FuncDecls("Divide") :
        /\ call' = "generateMust"
        /\ arg' = fnDecl
        /\ ret' = generateMust(<<>>, mustName(fnDecl.Name), fnDecl)
    /\ UNCHANGED walkVars

InitGen ==
    /\ pkg = <<>>
    /\ fileIdx = 0
    /\ declIdx = 0
    /\ err = NoErr
    /\ buffer = <<>>
    /\ pc = "idle"
    /\ fault = NoErr
    /\ calls = <<>>
    /\ call = "none"
    /\ arg = Nil
    /\ ret = Nil

NextGen ==
    \/ CallGenerateType
    \/ CallGenerateReceiver
    \/ CallGenerateParams
    \/ CallGenerateTypeParams
    \/ CallGenerateReturns
    \/ CallMustName
    \/ CallGenerateMust

SpecGen == InitGen /\ [][NextGen]_vars

----------------------------------------------------------------------------
(* The packages walkCode scans.  A file is drawn as a sequence of source
   shapes; ParseFile gives what go/parser gives for it: the declarations
   with the positions of their braces and statements, and the comment
   groups of the file in source order.  Every token takes one position.  *)

Comment(text) == [kind |-> "comment", Text |-> S(text)]
Stmt == [kind |-> "stmt"]

SigDivide ==
    FuncDecl("Divide", Nil, Nil,
             FieldList(<<Field(<<"a">>, TInt), Field(<<"b">>, TInt)>>),
             FieldList(<<Field(<<>>, TInt), Field(<<>>, TError)>>))
SigOpen ==
    FuncDecl("Open", Nil, Nil,
             FieldList(<<Field(<<"a">>, TInt)>>),
             FieldList(<<Field(<<>>, TPtr), Field(<<>>, TError)>>))
SigParse ==
    FuncDecl("parse", FieldList(<<Field(<<"_">>, TPtr)>>), Nil,
             FieldList(<<Field(<<"a">>, TInt)>>),
             FieldList(<<Field(<<>>, TError)>>))
SigRun == FuncDecl("Run", Nil, Nil, FieldList(<<>>), Nil)
SigHelper(name) ==
    FuncDecl(name, Nil, Nil, FieldList(<<>>), FieldList(<<Field(<<>>, TError)>>))

\* The body of a shape: Nil for a declaration without one, else its items.
Block(items) == [kind |-> "block", items |-> items]

Shape(doc, fn, body) == [doc |-> doc, fn |-> fn, body |-> body]

ShapeIds ==
    {"Tagged", "Renamed", "Unexported", "Suffixed", "TagAfterStmt", "NoteThenTag",
     "Plain", "DocTagged", "OnlyNote", "NoBody", "NoResults"}

ShapeOf(id) ==
    CASE id = "Tagged" ->
            \* func Divide(a int, b int) (int, error) { //@gen_must <nl> stmt <nl> // note }
            Shape(<<>>, SigDivide, Block(<<Comment("//@gen_must"), Stmt, Comment("// note")>>))
      [] id = "Renamed" ->
            \* func Open(a int) (*TypeA, error) { //@gen_must: SafeOpen <nl> stmt }
            Shape(<<>>, SigOpen, Block(<<Comment("//@gen_must: SafeOpen"), Stmt>>))
      [] id = "Unexported" ->
            \* func (_ *TypeA) parse(a int) error { //@gen_must <nl> stmt }
            Shape(<<>>, SigParse, Block(<<Comment("//@gen_must"), Stmt>>))
      [] id = "Suffixed" ->
            \* func Suffixed() error { //@gen_must Alias <nl> stmt }
            Shape(<<>>, SigHelper("Suffixed"), Block(<<Comment("//@gen_must Alias"), Stmt>>))
      [] id = "TagAfterStmt" ->
            \* func Late() error { stmt <nl> //@gen_must <nl> stmt }
            Shape(<<>>, SigHelper("Late"), Block(<<Stmt, Comment("//@gen_must"), Stmt>>))
      [] id = "NoteThenTag" ->
            \* func Noted() error { // note <nl> //@gen_must <nl> stmt }
            Shape(<<>>, SigHelper("Noted"),
                  Block(<<Comment("// note"), Comment("//@gen_must"), Stmt>>))
      [] id = "Plain" ->
            \* func Plain() error { stmt }
            Shape(<<>>, SigHelper("Plain"), Block(<<Stmt>>))
      [] id = "DocTagged" ->
            \* //@gen_must <nl> func Doc() error { stmt }
            Shape(<<S("//@gen_must")>>, SigHelper("Doc"), Block(<<Stmt>>))
      [] id = "OnlyNote" ->
            \* func Todo() { // todo }
            Shape(<<>>, FuncDecl("Todo", Nil, Nil, FieldList(<<>>), Nil),
                  Block(<<Comment("// todo")>>))
      [] id = "NoBody" ->
            \* func Extern() error
            Shape(<<>>, SigHelper("Extern"), Nil)
      [] id = "NoResults" ->
            \* func Run() { //@gen_must <nl> stmt }
            Shape(<<>>, SigRun, Block(<<Comment("//@gen_must"), Stmt>>))

Shapes == [id \in ShapeIds |-> ShapeOf(id)]

\* The positions a shape takes: its doc comments, "func", its braces and items.
Span(shape) ==
    Len(shape.doc) + 1 + (IF shape.body = Nil THEN 0 ELSE Len(shape.body.items) + 2)

LbraceOf(shape, p) == p + Len(shape.doc) + 1

BodyOf(shape, p) ==
    IF shape.body = Nil THEN Nil
    ELSE LET lb == LbraceOf(shape, p)
             stmtAt == {i \in 1..Len(shape.body.items) : shape.body.items[i].kind = "stmt"}
             RECURSIVE stmts(_)
             stmts(i) ==
                 IF i > Len(shape.body.items) THEN <<>>
                 ELSE (IF i \in stmtAt THEN <<[kind |-> "stmt", Pos |-> lb + i]>> ELSE <<>>)
                      \o stmts(i + 1)
         IN  [kind |-> "BlockStmt", Lbrace |-> lb, Rbrace |-> lb + Len(shape.body.items) + 1,
              List |-> stmts(1)]

DeclOf(shape, p) ==
    [Name |-> shape.fn.Name, Recv |-> shape.fn.Recv, Type |-> shape.fn.Type,
     Body |-> BodyOf(shape, p)]

\* Adjacent comments form one group; a statement ends the group.
RECURSIVE groupRuns(_, _, _, _)
groupRuns(items, i, base, cur) ==
    LET flush == IF cur = <<>> THEN <<>> ELSE <<[List |-> cur]>>
    IN  IF i > Len(items) THEN flush
        ELSE IF items[i].kind = "comment"
        THEN groupRuns(items, i + 1, base,
                       Append(cur, [Slash |-> base + i, Text |-> items[i].Text]))
        ELSE flush \o groupRuns(items, i + 1, base, <<>>)

CommentsOf(shape, p) ==
    (IF Len(shape.doc) = 0 THEN <<>>
     ELSE <<[List |-> [i \in 1..Len(shape.doc) |->
                          [Slash |-> p + i - 1, Text |-> shape.doc[i]]]]>>)
    \o (IF shape.body = Nil THEN <<>>
        ELSE groupRuns(shape.body.items, 1, LbraceOf(shape, p), <<>>))

RECURSIVE parseFrom(_, _)
parseFrom(ids, p) ==
    IF Len(ids) = 0 THEN [Decls |-> <<>>, Comments |-> <<>>]
    ELSE LET shape == Shapes[ids[1]]
             rest == parseFrom(Tail(ids), p + Span(shape))
         IN  [Decls |-> <<DeclOf(shape, p)>> \o rest.Decls,
              Comments |-> CommentsOf(shape, p) \o rest.Comments]

ParseFile(ids) == parseFrom(ids, 1)

Break == "--- next file ---"

\* A sequence of shapes and file breaks, cut into the files of a package.
RECURSIVE SplitFiles(_)
SplitFiles(items) ==
    IF \A i \in 1..Len(items) : items[i] # Break THEN <<items>>
    ELSE LET k == CHOOSE i \in 1..Len(items) :
                      items[i] = Break /\ \A j \in 1..(i - 1) : items[j] # Break
         IN  <<SubSeq(items, 1, k - 1)>> \o SplitFiles(SubSeq(items, k + 1, Len(items)))

Packages ==
    {SplitFiles(items) :
        items \in UNION {[1..n -> ShapeIds \cup {Break}] : n \in 0..MaxItems}}

PkgName == S("testpkg")
TagComment == S("@gen_must")

----------------------------------------------------------------------------
(* walkCode *)

\* Lines 87-96: the first comment of the file, in the order of file.Comments,
\* whose position lies in [fn.Body.Lbrace, fn.Body.Rbrace]; Nil when none.
RECURSIVE firstIn(_, _)
firstIn(comments, body) ==
    IF Len(comments) = 0 THEN Nil
    ELSE IF comments[1].Slash >= body.Lbrace /\ comments[1].Slash <= body.Rbrace
    THEN comments[1]
    ELSE firstIn(Tail(comments), body)

AllComments(file) == Flatten([i \in 1..Len(file.Comments) |-> file.Comments[i].List])

\* Lines 100-110: the first node ast.Inspect meets in the body other than the
\* body itself; the nil interface when the body holds no statement.
FirstNode(fn) == IF Len(fn.Body.List) = 0 THEN Nil ELSE fn.Body.List[1]

\* A slip in line 111: the comparison turned around.
NodeFirst_Flipped(firstNode, firstComment) == firstNode.Pos > firstComment.Slash

\* Line 111.
NodeFirst(firstNode, firstComment) == firstNode.Pos < firstComment.Slash

Tagged(text, tagComment) == HasPrefix(text, S("//") \o tagComment)

\* Lines 118-123.
NewName(text, tagComment, fnName) ==
    LET newName == TrimPrefix(text, S("//") \o tagComment)
    IN  IF HasPrefix(newName, S(":")) THEN TrimSpace(SubSeq(newName, 2, Len(newName)))
        ELSE IF newName = <<>> THEN mustName(fnName)
        ELSE newName

Skip == [do |-> "skip"]
Panic(msg) == [do |-> "panic", panic |-> msg]
Gen(newName) == [do |-> "genFn", newName |-> newName]

\* Lines 83-123 for one FuncDecl node: what the callback does before genFn.
\* With no comment in the file the loop body never runs and fn.Body is not
\* read; with one, fn.Body.Lbrace is read and a nil Body is dereferenced.
inspectFuncDecl(file, fn, tagComment) ==
    IF Len(file.Comments) = 0 THEN Skip
    ELSE IF fn.Body = Nil THEN Panic(PanicNil)
    ELSE LET firstComment == firstIn(AllComments(file), fn.Body)
         IN  IF firstComment = Nil THEN Skip
             ELSE LET firstNode == FirstNode(fn)
                  IN  IF firstNode = Nil THEN Panic(PanicNil)
                      ELSE IF NodeFirst(firstNode, firstComment) THEN Skip
                      ELSE IF ~Tagged(firstComment.Text, tagComment) THEN Skip
                      ELSE Gen(NewName(firstComment.Text, tagComment, fn.Name))

\* The rest of the callback (lines 124-127) and what the call of genFn leaves;
\* r is what genFn does when it is called.  Whether the callback returns
\* false or true, ast.Inspect goes on to the next declaration of the file.
visitDecl(o, r) ==
    CASE o.do = "skip" ->
            /\ declIdx' = declIdx + 1
            /\ UNCHANGED <<err, buffer, pc, fault, calls>>
      [] o.do = "panic" ->
            /\ pc' = "panic"
            /\ fault' = o.panic
            /\ UNCHANGED <<declIdx, err, buffer, calls>>
      [] o.do = "genFn" ->
            /\ calls' = Append(calls,
                   [file |-> fileIdx, decl |-> declIdx + 1, newName |-> o.newName,
                    result |-> IF r.panic # NoPanic THEN "panic"
                               ELSE IF r.exit # NoErr THEN "exit" ELSE r.ret])
            /\ IF r.panic # NoPanic
               THEN /\ pc' = "panic"
                    /\ fault' = r.panic
                    /\ UNCHANGED <<declIdx, err, buffer>>
               ELSE IF r.exit # NoErr
               THEN /\ pc' = "exit"
                    /\ fault' = r.exit
                    /\ UNCHANGED <<declIdx, err, buffer>>
               ELSE /\ buffer' = r.buf
                    /\ err' = r.ret
                    /\ declIdx' = declIdx + 1
                    /\ UNCHANGED <<pc, fault>>

\* main, lines 336-337.
GenerateHead ==
    /\ pc = "head"
    /\ buffer' = generateHead(buffer, PkgName)
    /\ pc' = "walk"
    /\ fileIdx' = 1
    /\ declIdx' = 0
    /\ err' = NoErr
    /\ UNCHANGED <<pkg, fault, calls, call, arg, ret>>

\* The callback of ast.Inspect on the next FuncDecl of the file, with
\* gen.generateMust as genFn (line 338).  The file, the declaration and what
\* the callback does are each bound to their value once.
VisitDecl ==
    /\ pc = "walk"
    /\ declIdx < Len(pkg[fileIdx])
    /\ \E file \in {ParseFile(pkg[fileIdx])} :
       \E fn \in {file.Decls[declIdx + 1]} :
       \E o \in {inspectFuncDecl(file, fn, TagComment)} :
           IF o.do = "genFn"
           THEN \E r \in {generateMust(buffer, o.newName, fn)} : visitDecl(o, r)
           ELSE visitDecl(o, Returned(buffer))
    /\ UNCHANGED <<pkg, fileIdx, call, arg, ret>>

\* The results a genFn other than gen.generateMust may give.
GenFnResults == {NoErr, errUnknownFieldType, errNoErrorReturn}

\* The same callback under a genFn that returns its error to walkCode.
VisitDeclGenFn ==
    /\ pc = "walk"
    /\ declIdx < Len(pkg[fileIdx])
    /\ \E file \in {ParseFile(pkg[fileIdx])} :
       \E fn \in {file.Decls[declIdx + 1]} :
       \E o \in {inspectFuncDecl(file, fn, TagComment)} :
       \E e \in GenFnResults :
           visitDecl(o, [buf |-> buffer, ret |-> e, exit |-> NoErr, panic |-> NoPanic])
    /\ UNCHANGED <<pkg, fileIdx, call, arg, ret>>

\* Lines 129-133: after ast.Inspect of a file, return err when it is set,
\* else go on to the next file, or return nil after the last one.
EndFile ==
    /\ pc = "walk"
    /\ declIdx = Len(pkg[fileIdx])
    /\ IF err # NoErr
       THEN /\ pc' = "returned"
            /\ fault' = err
            /\ UNCHANGED <<fileIdx, declIdx, err>>
       ELSE IF fileIdx < Len(pkg)
       THEN /\ fileIdx' = fileIdx + 1
            /\ declIdx' = 0
            /\ err' = NoErr
            /\ UNCHANGED <<pc, fault>>
       ELSE /\ pc' = "returned"
            /\ fault' = NoErr
            /\ UNCHANGED <<fileIdx, declIdx, err>>
    /\ UNCHANGED <<pkg, buffer, calls, call, arg, ret>>

\* main, lines 338-340 and 362: showError on an error of walkCode, else the
\* buffer goes to the formatter.
Finish ==
    /\ pc = "returned"
    /\ pc' = IF fault # NoErr THEN "exit" ELSE "done"
    /\ UNCHANGED <<pkg, fileIdx, declIdx, err, buffer, fault, calls, call, arg, ret>>

\* main on a drawn package.
Init ==
    /\ pkg \in Packages
    /\ fileIdx = 0
    /\ declIdx = 0
    /\ err = NoErr
    /\ buffer = <<>>
    /\ pc = "head"
    /\ fault = NoErr
    /\ calls = <<>>
    /\ call = "none"
    /\ arg = Nil
    /\ ret = Nil

Next ==
    \/ GenerateHead
    \/ VisitDecl
    \/ EndFile
    \/ Finish

Spec == Init /\ [][Next]_vars

\* walkCode on a drawn package, called with a genFn that may fail.
InitWalk ==
    /\ pkg \in Packages
    /\ fileIdx = 1
    /\ declIdx = 0
    /\ err = NoErr
    /\ buffer = <<>>
    /\ pc = "walk"
    /\ fault = NoErr
    /\ calls = <<>>
    /\ call = "none"
    /\ arg = Nil
    /\ ret = Nil

NextWalk ==
    \/ VisitDeclGenFn
    \/ EndFile

SpecWalk == InitWalk /\ [][NextWalk]_vars

----------------------------------------------------------------------------
(* What the claims speak of, stated apart from the code's own path *)

Contains(text, sub) ==
    \E i \in 1..(Len(text) - Len(sub) + 1) : SubSeq(text, i, i + Len(sub) - 1) = sub

IsPrefixOf(s, u) == Len(s) <= Len(u) /\ SubSeq(u, 1, Len(s)) = s

IsEmptyList(list) == list = Nil \/ Len(list.List) = 0

\* The node kinds the reconstructor supports, by the shape of the expression.
RECURSIVE Supported(_)
Supported(typ) ==
    CASE typ.kind \in {"Ident", "Ellipsis", "UnaryExpr"} -> TRUE
      [] typ.kind = "StarExpr" -> Supported(typ.X)
      [] typ.kind = "BinaryExpr" ->
            IsOperator(typ.Op) /\ Supported(typ.X) /\ Supported(typ.Y)
      [] typ.kind = "IndexExpr" -> Supported(typ.X) /\ Supported(typ.Index)
      [] typ.kind = "IndexListExpr" ->
            Supported(typ.X) /\ \A i \in 1..Len(typ.Indices) : Supported(typ.Indices[i])
      [] OTHER -> FALSE

AllSupported(list) == \A i \in 1..Len(list.List) : Supported(list.List[i].Type)

LastType(list) == list.List[Len(list.List)].Type

\* Every declared name of a parameter list with the type of its field.
RECURSIVE DeclaredPairs(_)
DeclaredPairs(fields) ==
    IF Len(fields) = 0 THEN <<>>
    ELSE [i \in 1..Len(fields[1].Names) |->
             [name |-> fields[1].Names[i], type |-> generateType(fields[1].Type).s]]
         \o DeclaredPairs(Tail(fields))

DeclaredParams(params) == IF params = Nil THEN <<>> ELSE DeclaredPairs(params.List)

ClaimedParamsDecl(params) ==
    LET ps == DeclaredParams(params)
    IN  Join([i \in 1..Len(ps) |-> ps[i].name \o S(" ") \o ps[i].type], S(","))

ClaimedParamsUse(params) ==
    LET ps == DeclaredParams(params)
    IN  Join([i \in 1..Len(ps) |-> ps[i].name], S(","))

\* The type of every result value: a field declares one value per name, and
\* one value when it has no name.
RECURSIVE ValueTypes(_)
ValueTypes(fields) ==
    IF Len(fields) = 0 THEN <<>>
    ELSE LET n == IF Len(fields[1].Names) = 0 THEN 1 ELSE Len(fields[1].Names)
         IN  [i \in 1..n |-> generateType(fields[1].Type).s] \o ValueTypes(Tail(fields))

ClaimedVars(k) == [i \in 1..k |-> IF i = k THEN S("err") ELSE S("var") \o Itoa(i - 1)]

WrapperEmitted == call = "generateMust" /\ ret.exit = NoErr /\ ret.panic = NoPanic

\* The first character of a name and the rest, by characters.
FirstRune(name) == IF IsASCII(name[1]) THEN SubSeq(name, 1, 1) ELSE SubSeq(name, 1, 2)
RestRunes(name) == SubSeq(name, Len(FirstRune(name)) + 1, Len(name))
IsUpperRune(r) == (Len(r) = 1 /\ IsUpperByte(r[1])) \/ r = <<"\\xc3", "\\x89">>

ClaimedMustName(name) ==
    IF IsUpperRune(FirstRune(name)) THEN S("Must") \o name
    ELSE S("must") \o ToUpper(FirstRune(name)) \o RestRunes(name)

\* The first comment strictly inside the body of fn, by position; Nil when none.
FirstBodyComment(file, fn) ==
    LET all == AllComments(file)
        inside == {i \in 1..Len(all) :
                      all[i].Slash > fn.Body.Lbrace /\ all[i].Slash < fn.Body.Rbrace}
    IN  IF inside = {} THEN Nil
        ELSE all[CHOOSE i \in inside : \A j \in inside : all[i].Slash <= all[j].Slash]

StmtBefore(fn, c) == \E s \in 1..Len(fn.Body.List) : fn.Body.List[s].Pos < c.Slash

Marker == S("//@gen_must")

CarriesMarker(file, fn) ==
    /\ fn.Body # Nil
    /\ FirstBodyComment(file, fn) # Nil
    /\ HasPrefix(FirstBodyComment(file, fn).Text, Marker)

Qualifies(file, fn) ==
    /\ CarriesMarker(file, fn)
    /\ ~StmtBefore(fn, FirstBodyComment(file, fn))

DeclAt(f, d) == ParseFile(pkg[f]).Decls[d]

----------------------------------------------------------------------------
(* The claims *)

\* C1: the wrapper declares every declared parameter name with its type and
\* forwards every declared name to the original, in declaration order, also
\* for names that share one type in a grouped declaration.
C1_AllParamsForwarded ==
    /\ (call = "generateParams" /\ ret.err = NoErr /\ ret.panic = NoPanic)
        => /\ ret.decl = ClaimedParamsDecl(arg)
           /\ ret.use = ClaimedParamsUse(arg)
    /\ WrapperEmitted
        => /\ Contains(ret.buf, S("(") \o ClaimedParamsDecl(arg.Type.Params) \o S(") ("))
           /\ Contains(ret.buf, S("(") \o ClaimedParamsUse(arg.Type.Params) \o S(")\nif err"))

\* C2: for k declared result values with error last, the wrapper declares the
\* k-1 others in order, assigns var0..var(k-2), err and returns the k-1.
C2_ArityPreserved ==
    WrapperEmitted =>
        LET types == ValueTypes(arg.Type.Results.List)
            k == Len(types)
            vars_ == ClaimedVars(k)
        IN  /\ Contains(ret.buf,
                        S(") (") \o Join(SubSeq(types, 1, k - 1), S(",")) \o S(") {\n")
                            \o Join(vars_, S(",")) \o S(" := "))
            /\ IF k > 1
               THEN Contains(ret.buf,
                             S("\nreturn ") \o Join(SubSeq(vars_, 1, k - 1), S(","))
                                 \o S("}\n"))
               ELSE ~Contains(ret.buf, S("return "))

\* C3: mustName gives "Must"+name for a name that starts with an upper-case
\* letter and "must"+upper(first character)+rest for every other name.
C3_MustNameByCase ==
    call = "mustName" => ret.s = ClaimedMustName(arg.name)

\* C4 as stated: result extraction fails with NoReturnValues on an empty
\* result list and with NoErrorReturn whenever the last result is not error,
\* whatever the result types are; no wrapper text is emitted.
C4_AlwaysNoErrorReturn ==
    /\ call = "generateReturns"
        => IF IsEmptyList(arg) THEN ret.err = errNoReturnValues
           ELSE (LastType(arg) # TError => ret.err = errNoErrorReturn)
    /\ (call = "generateMust"
            /\ (IsEmptyList(arg.Type.Results) \/ LastType(arg.Type.Results) # TError))
        => ret.buf = <<>>

\* C4 as amended: NoReturnValues on an empty result list; when the last
\* result is not error, NoErrorReturn if every result type is of a supported
\* kind and UnknownFieldType if one is not; no wrapper text is emitted and
\* the run ends.
C4_ErrorByResultShape ==
    /\ call = "generateReturns"
        => IF IsEmptyList(arg) THEN ret.err = errNoReturnValues
           ELSE (LastType(arg) # TError
                    => ret.err = IF AllSupported(arg) THEN errNoErrorReturn
                                 ELSE errUnknownFieldType)
    /\ (call = "generateMust"
            /\ (IsEmptyList(arg.Type.Results) \/ LastType(arg.Type.Results) # TError))
        => /\ ret.buf = <<>>
           /\ (ret.exit # NoErr \/ ret.panic # NoPanic)

C4_Witness ==
    /\ call = "generateReturns"
    /\ ~IsEmptyList(arg)
    /\ LastType(arg) # TError
    /\ ~AllSupported(arg)
    /\ ret.err = errUnknownFieldType

\* C5: genFn is invoked for a declaration only if the first comment inside
\* its body precedes the first statement of the body and begins with the
\* marker; a statement before that comment rules the declaration out.
C5_OnlyLeadingMarkerTriggers ==
    \A i \in 1..Len(calls) :
        \E file \in {ParseFile(pkg[calls[i].file])} :
            Qualifies(file, file.Decls[calls[i].decl])

C5_Witness ==
    /\ pc = "walk"
    /\ declIdx >= 1
    /\ \E file \in {ParseFile(pkg[fileIdx])} :
           /\ CarriesMarker(file, file.Decls[declIdx])
           /\ StmtBefore(file.Decls[declIdx], FirstBodyComment(file, file.Decls[declIdx]))
    /\ \A i \in 1..Len(calls) : ~(calls[i].file = fileIdx /\ calls[i].decl = declIdx)

\* C6: the target name handed to genFn is the trimmed text after the colon
\* when the text after the marker begins with ":", and the name mustName
\* derives otherwise; it is never another string.
C6_TargetName ==
    \A i \in 1..Len(calls) :
        \E file \in {ParseFile(pkg[calls[i].file])} :
        LET fn == file.Decls[calls[i].decl]
            rest == TrimPrefix(FirstBodyComment(file, fn).Text, Marker)
        IN  calls[i].newName =
                IF HasPrefix(rest, S(":")) THEN TrimSpace(Tail(rest))
                ELSE mustName(fn.Name)

FirstFailure ==
    IF \A i \in 1..Len(calls) : calls[i].result = NoErr THEN NoErr
    ELSE calls[CHOOSE i \in 1..Len(calls) :
                   /\ calls[i].result # NoErr
                   /\ \A j \in 1..(i - 1) : calls[j].result = NoErr].result

\* C7: once genFn has returned an error no later declaration is handed to
\* genFn, and walkCode returns that first error.
C7_FirstErrorAborts ==
    /\ \A i \in 1..(Len(calls) - 1) : calls[i].result = NoErr
    /\ pc = "returned" => fault = FirstFailure

\* C8: a declaration that does not qualify (no comment in its body, no body,
\* or a first body comment without the marker) is skipped: the scan neither
\* fails nor aborts on it.
C8_UnqualifiedSkipped ==
    (pc = "panic" /\ fault = PanicNil)
        => CarriesMarker(ParseFile(pkg[fileIdx]), DeclAt(fileIdx, declIdx + 1))

\* C9: generateReceiver gives empty texts without a receiver, "(name Type)"
\* and "name." with one, and uses the placeholder "t" for a receiver that is
\* unnamed or named "_" instead of failing.
C9_ReceiverPieces ==
    call = "generateReceiver" =>
        IF arg = Nil THEN ret = Pieces(<<>>, <<>>)
        ELSE LET names == arg.List[1].Names
                 name == IF Len(names) = 0 \/ names[1] = S("_") THEN S("t") ELSE names[1]
                 type == generateType(arg.List[1].Type).s
             IN  ret = Pieces(S("(") \o name \o S(" ") \o type \o S(")"), name \o S("."))

\* The wrappers of the declarations of a file that qualify, in document order.
RECURSIVE WrappersFrom(_, _)
WrappersFrom(file, d) ==
    IF d > Len(file.Decls) THEN <<>>
    ELSE LET fn == file.Decls[d]
         IN  (IF Qualifies(file, fn)
              THEN generateMust(<<>>,
                                NewName(FirstBodyComment(file, fn).Text, TagComment, fn.Name),
                                fn).buf
              ELSE <<>>)
             \o WrappersFrom(file, d + 1)

ExpectedOutput ==
    generateHead(<<>>, PkgName)
        \o Flatten([f \in 1..Len(pkg) |-> WrappersFrom(ParseFile(pkg[f]), 1)])

\* C10: on a run without errors the buffer holds the head and one wrapper per
\* matched declaration, none for the others, in file order and in document
\* order within a file; text once appended is never changed or removed.
C10_OneWrapperPerMatchInOrder ==
    /\ [](pc = "done" => buffer = ExpectedOutput)
    /\ [][IsPrefixOf(buffer, buffer')]_vars

C10_Witness ==
    /\ pc = "done"
    /\ Len(calls) = 2
    /\ calls[1].file = calls[2].file
    /\ Len(pkg[calls[1].file]) = 3
    /\ calls[1].newName # calls[2].newName

=============================================================================
